---- MODULE Spec2Model ----
(***************************************************************************)
(* Model of the fooswap backend: the Sui event indexer (src/indexer.rs),   *)
(* the SQLite store (src/db.rs) and the query handlers that share the      *)
(* connection mutex with it (src/routes.rs, src/main.rs).                   *)
(***************************************************************************)
EXTENDS Integers, Sequences, FiniteSets, TLC

\* ------------------------------------------------------------------ bounds
MaxTs == 1        \* event timestamps on the ledger range over 0..MaxTs
MaxTime == 2      \* values SystemTime::now() may yield: 0..MaxTime
MaxChain == 2     \* number of events the upstream ledger may hold

\* page size of suix_queryEvents
PAGE_LIMIT == 100

\* the numbers the decimal strings of the model denote
NumRange == 0..(MaxTs + 4)

\* ------------------------------------------------------- JSON values
\* A JSON value of a raw event: a string <<"str", s>>, or absent <<>>.
Missing == <<>>
Str(s) == <<"str", s>>

AsStrOr_to_string(v, default) ==
    IF Len(v) = 2 /\ v[1] = "str" THEN v[2] ELSE "null"

\* Value::as_str().unwrap_or(default) / unwrap_or_default()
AsStrOr(v, default) == IF Len(v) = 2 /\ v[1] = "str" THEN v[2] ELSE default

\* str::parse::<i64>().unwrap_or(0)
ParseI64(s) ==
    IF \E n \in NumRange : ToString(n) = s
    THEN CHOOSE n \in NumRange : ToString(n) = s
    ELSE 0

\* str::parse::<f64>().unwrap_or(0.0), on the integral amounts of the model
ParseF64(s) ==
    IF \E n \in NumRange : ToString(n) = s
    THEN CHOOSE n \in NumRange : ToString(n) = s
    ELSE 0

\* ------------------------------------------------------- event types
\* A type string is kept as the sequence of its parts, so that
\* str::contains can be computed on it.
DEX_PACKAGE_ID == "0x1c2be4cfbf91fe8d71aedeb83cbe680475b70359bab87900df99ecd787ca5474"
PoolCreatedType == <<DEX_PACKAGE_ID, "::fooswap::", "PoolCreatedEvent">>
SwapType == <<DEX_PACKAGE_ID, "::fooswap::", "SwapEvent">>
event_types == <<PoolCreatedType, SwapType>>

Contains(parts, needle) == \E i \in DOMAIN parts : parts[i] = needle

\* the if / else-if of process_events
EventKind(evt) ==
    LET event_type == evt.type IN
    IF Contains(event_type, "PoolCreatedEvent") THEN "PoolCreated"
    ELSE IF Contains(event_type, "SwapEvent") THEN "Swap"
    ELSE "Other"

\* ------------------------------------------------------- raw events
\* The events the ledger may emit: every transaction digest carries its own
\* post-swap reserves; a pool is created with the reserves (3, 4).
Digests == {"d1", "d2"}
PoolIds == {"p1"}
DigestReserve == [d \in Digests |-> IF d = "d1" THEN 1 ELSE 2]

RawPoolCreated(t, p) ==
    [type |-> PoolCreatedType, txDigest |-> Str("d0"),
     timestampMs |-> Str(ToString(t)), pool_id |-> Str(p),
     token_a |-> Str("A"), token_b |-> Str("B"),
     initial_reserve_a |-> Str("3"), initial_reserve_b |-> Str("4"),
     amount_in |-> Missing, amount_out |-> Missing,
     new_reserve_a |-> Missing, new_reserve_b |-> Missing]

RawSwap(t, p, d) ==
    [type |-> SwapType, txDigest |-> Str(d),
     timestampMs |-> Str(ToString(t)), pool_id |-> Str(p),
     token_a |-> Missing, token_b |-> Missing,
     initial_reserve_a |-> Missing, initial_reserve_b |-> Missing,
     amount_in |-> Str("2"), amount_out |-> Str("1"),
     new_reserve_a |-> Str(ToString(DigestReserve[d])),
     new_reserve_b |-> Str(ToString(DigestReserve[d] + 1))]

RawEvents ==
    { RawPoolCreated(t, p) : t \in 0..MaxTs, p \in PoolIds }
    \cup
    { RawSwap(t, p, d) : t \in 0..MaxTs, p \in PoolIds, d \in Digests }

\* fields as process_events extracts them
EvtTs(evt) == ParseI64(AsStrOr(evt.timestampMs, "0"))
EvtDigest(evt) == AsStrOr(evt.txDigest, "")
EvtPool(evt) == AsStrOr(evt.pool_id, "")
EvtReserveA(evt) ==
    IF EventKind(evt) = "PoolCreated"
    THEN ParseF64(AsStrOr(evt.initial_reserve_a, "0"))
    ELSE ParseF64(AsStrOr(evt.new_reserve_a, "0"))
EvtReserveB(evt) ==
    IF EventKind(evt) = "PoolCreated"
    THEN ParseF64(AsStrOr(evt.initial_reserve_b, "0"))
    ELSE ParseF64(AsStrOr(evt.new_reserve_b, "0"))

\* ------------------------------------------------------- the store
upsert_pool_stale_ts(tbl, pool_id, token_a, token_b, reserve_a, reserve_b, last_updated) ==
    IF \E r \in tbl : r.pool_id = pool_id
    THEN { IF r.pool_id = pool_id
           THEN [r EXCEPT !.reserve_a = reserve_a, !.reserve_b = reserve_b]
           ELSE r : r \in tbl }
    ELSE tbl \cup {[pool_id |-> pool_id, token_a |-> token_a, token_b |-> token_b,
                    reserve_a |-> reserve_a, reserve_b |-> reserve_b,
                    last_updated |-> last_updated]}

upsert_pool_tokens_too(tbl, pool_id, token_a, token_b, reserve_a, reserve_b, last_updated) ==
    { r \in tbl : r.pool_id # pool_id }
    \cup {[pool_id |-> pool_id, token_a |-> token_a, token_b |-> token_b,
           reserve_a |-> reserve_a, reserve_b |-> reserve_b,
           last_updated |-> last_updated]}

upsert_pool_if_newer(tbl, pool_id, token_a, token_b, reserve_a, reserve_b, last_updated) ==
    IF \E r \in tbl : r.pool_id = pool_id
    THEN { IF r.pool_id = pool_id /\ r.last_updated <= last_updated
           THEN [r EXCEPT !.reserve_a = reserve_a, !.reserve_b = reserve_b,
                          !.last_updated = last_updated]
           ELSE r : r \in tbl }
    ELSE tbl \cup {[pool_id |-> pool_id, token_a |-> token_a, token_b |-> token_b,
                    reserve_a |-> reserve_a, reserve_b |-> reserve_b,
                    last_updated |-> last_updated]}

upsert_pool_insert_only(tbl, pool_id, token_a, token_b, reserve_a, reserve_b, last_updated) ==
    tbl \cup {[pool_id |-> pool_id, token_a |-> token_a, token_b |-> token_b,
               reserve_a |-> reserve_a, reserve_b |-> reserve_b,
               last_updated |-> last_updated]}

\* INSERT INTO pools ... ON CONFLICT(pool_id) DO UPDATE SET reserve_a,
\* reserve_b, last_updated
upsert_pool(tbl, pool_id, token_a, token_b, reserve_a, reserve_b, last_updated) ==
    IF \E r \in tbl : r.pool_id = pool_id
    THEN { IF r.pool_id = pool_id
           THEN [r EXCEPT !.reserve_a = reserve_a, !.reserve_b = reserve_b,
                          !.last_updated = last_updated]
           ELSE r : r \in tbl }
    ELSE tbl \cup {[pool_id |-> pool_id, token_a |-> token_a, token_b |-> token_b,
                    reserve_a |-> reserve_a, reserve_b |-> reserve_b,
                    last_updated |-> last_updated]}

insert_swap_replace(tbl, pool_id, amount_in, amount_out, timestamp, tx_digest) ==
    IF \E i \in DOMAIN tbl : tbl[i].tx_digest = tx_digest
    THEN [i \in DOMAIN tbl |->
            IF tbl[i].tx_digest = tx_digest
            THEN [id |-> tbl[i].id, pool_id |-> pool_id, amount_in |-> amount_in,
                  amount_out |-> amount_out, timestamp |-> timestamp,
                  tx_digest |-> tx_digest]
            ELSE tbl[i]]
    ELSE Append(tbl, [id |-> Len(tbl) + 1, pool_id |-> pool_id,
                      amount_in |-> amount_in, amount_out |-> amount_out,
                      timestamp |-> timestamp, tx_digest |-> tx_digest])

insert_swap_always(tbl, pool_id, amount_in, amount_out, timestamp, tx_digest) ==
    Append(tbl, [id |-> Len(tbl) + 1, pool_id |-> pool_id, amount_in |-> amount_in,
                 amount_out |-> amount_out, timestamp |-> timestamp,
                 tx_digest |-> tx_digest])

\* INSERT OR IGNORE INTO swaps, tx_digest UNIQUE
insert_swap(tbl, pool_id, amount_in, amount_out, timestamp, tx_digest) ==
    IF \E i \in DOMAIN tbl : tbl[i].tx_digest = tx_digest
    THEN tbl
    ELSE Append(tbl, [id |-> Len(tbl) + 1, pool_id |-> pool_id,
                      amount_in |-> amount_in, amount_out |-> amount_out,
                      timestamp |-> timestamp, tx_digest |-> tx_digest])

\* the row insert_swap writes for a Swap event is in the table
HasRow(tbl, evt) ==
    \E i \in DOMAIN tbl :
        /\ tbl[i].tx_digest = EvtDigest(evt)
        /\ tbl[i].pool_id = EvtPool(evt)
        /\ tbl[i].timestamp = EvtTs(evt)

\* bookkeeping of newest: an event replaces the entry of its pool unless an
\* event with a higher timestamp has been stored for that pool
Newer(nw, evt) ==
    LET p == EvtPool(evt)
        entry == <<EvtTs(evt), EvtReserveA(evt), EvtReserveB(evt)>>
    IN  IF p \in DOMAIN nw
        THEN IF nw[p][1] <= EvtTs(evt) THEN [nw EXCEPT ![p] = entry] ELSE nw
        ELSE [q \in DOMAIN nw \cup {p} |-> IF q = p THEN entry ELSE nw[q]]

\* ------------------------------------------------------- the upstream
\* One suix_queryEvents call: the events of one type in [from_ts, to_ts),
\* ascending, first page only.
Take_no_limit(s, n) == s

\* the first n elements: `limit` of suix_queryEvents, no cursor is followed
Take(s, n) == SubSeq(s, 1, IF Len(s) < n THEN Len(s) ELSE n)

QueryPage(ch, event_type, from, to) ==
    Take(SelectSeq(ch, LAMBDA e : /\ e.type = event_type
                                  /\ from <= EvtTs(e)
                                  /\ EvtTs(e) < to),
         PAGE_LIMIT)

\* outcomes of one HTTP round trip
Outcomes == {"transport", "status", "badjson", "nodata", "data"}

QueryFails_status_unchecked(outcome) == outcome \in {"transport", "badjson"}

\* send().await? , !status().is_success() , resp.json().await?
QueryFails(outcome) == outcome \in {"transport", "status", "badjson"}

\* ------------------------------------------------------- state
VARIABLES
    chain,       \* events the upstream ledger holds, in ledger order
    pools,       \* table pools: set of rows
    swaps,       \* table swaps: rows in id order
    lock,        \* holder of the Mutex<Connection>: "free", "indexer", "handler"
    poisoned,    \* the mutex is poisoned
    pc,          \* position of the process / of run_indexer
    last_ts,     \* run_indexer: the cursor
    to_ts,       \* run_indexer: end of the current window
    from_ts,     \* query_sui_events: start of the current window
    qi,          \* query_sui_events: index of the event type being queried
    failed,      \* a query of this cycle met a transport error or a bad status/body
    nodata,      \* a query of this cycle got a success body without result.data
    all_events,  \* query_sui_events: events collected; then process_events' input
    idx,         \* process_events: index of the event being processed
    sub,         \* process_events: next write of a Swap event (1 insert, 2 upsert)
    werr,        \* a store write returned Err in this cycle
    newest,      \* history: per pool id, <<ts, reserve_a, reserve_b>> of the latest
                 \* event by timestamp among those upsert_pool has stored
    before,      \* history: the tables and the cursor as the last restart between
                 \* cycles found them, <<>> when there was none
    call,        \* arguments of a function called on its own, <<>> when none
    ret          \* what that call returned, <<>> when none

vars == <<chain, pools, swaps, lock, poisoned, pc, last_ts, to_ts, from_ts,
          qi, failed, nodata, all_events, idx, sub, werr, newest, before, call, ret>>

store == <<pools, swaps>>
mem == <<last_ts, to_ts, from_ts, qi, failed, nodata, all_events, idx, sub, werr>>

Init ==
    /\ chain = <<>>
    /\ pools = {}
    /\ swaps = <<>>
    /\ lock = "free"
    /\ poisoned = FALSE
    /\ pc = "boot"
    /\ last_ts = 0
    /\ to_ts = 0
    /\ from_ts = 0
    /\ qi = 1
    /\ failed = FALSE
    /\ nodata = FALSE
    /\ all_events = <<>>
    /\ idx = 1
    /\ sub = 1
    /\ werr = FALSE
    /\ newest = [q \in {} |-> <<>>]
    /\ before = <<>>
    /\ call = <<>>
    /\ ret = <<>>

\* ------------------------------------------------------- environment
\* The ledger appends an event; ledger timestamps do not decrease.
Emit ==
    /\ Len(chain) < MaxChain
    /\ \E e \in RawEvents :
        /\ \A i \in DOMAIN chain : chain[i] # e
        /\ chain # <<>> => EvtTs(chain[Len(chain)]) <= EvtTs(e)
        /\ chain' = Append(chain, e)
    /\ UNCHANGED <<before, call, ret, pools, swaps, lock, poisoned, pc, mem, newest>>

\* The process dies and is started again: fooswap.db persists, everything
\* in memory is lost.
Restart ==
    /\ pc # "boot"
    /\ pc' = "boot"
    /\ lock' = "free"
    /\ poisoned' = FALSE
    /\ last_ts' = 0
    /\ to_ts' = 0
    /\ from_ts' = 0
    /\ qi' = 1
    /\ failed' = FALSE
    /\ nodata' = FALSE
    /\ all_events' = <<>>
    /\ idx' = 1
    /\ sub' = 1
    /\ werr' = FALSE
    /\ UNCHANGED <<before, call, ret, chain, pools, swaps, newest>>

\* main: init_db (CREATE TABLE IF NOT EXISTS), spawn run_indexer, last_ts = 0
main ==
    /\ pc = "boot"
    /\ pc' = "now"
    /\ last_ts' = 0
    /\ UNCHANGED <<before, call, ret, chain, pools, swaps, lock, poisoned, to_ts, from_ts, qi, failed,
                   nodata, all_events, idx, sub, werr, newest>>

\* ------------------------------------------------------- run_indexer
next_cursor_always(events, last, to) == to

\* if !events.is_empty() { ...; last_ts = to_ts }
next_cursor(events, last, to) == IF events # <<>> THEN to ELSE last

\* loop head: to_ts = SystemTime::now(); query_sui_events(last_ts, to_ts)
ReadClock ==
    /\ pc = "now"
    /\ \E t \in 0..MaxTime : to_ts' = t
    /\ from_ts' = last_ts
    /\ qi' = 1
    /\ failed' = FALSE
    /\ nodata' = FALSE
    /\ all_events' = <<>>
    /\ werr' = FALSE
    /\ pc' = "query"
    /\ UNCHANGED <<before, call, ret, chain, pools, swaps, lock, poisoned, last_ts, idx, sub, newest>>

\* the iteration of `loop` is over: to_ts and the events vector go out of
\* scope; run_indexer goes on to sleep
EndOfCycle ==
    /\ pc' = "sleep"
    /\ to_ts' = 0
    /\ from_ts' = 0
    /\ all_events' = <<>>

\* one iteration of `for event_type in event_types.iter()`; after the last
\* one query_sui_events returns Ok(all_events) and run_indexer matches on it
Query ==
    /\ pc = "query"
    /\ \E outcome \in Outcomes :
        LET got == IF outcome = "data"
                   THEN all_events \o QueryPage(chain, event_types[qi], from_ts, to_ts)
                   ELSE all_events
        IN  /\ failed' = (failed \/ outcome \in {"transport", "status", "badjson"})
            /\ nodata' = (nodata \/ outcome = "nodata")
            /\ IF QueryFails(outcome)
               THEN \* return Err(..): run_indexer logs the warning
                    /\ EndOfCycle
                    /\ UNCHANGED <<last_ts, qi>>
               ELSE IF qi < Len(event_types)
               THEN /\ all_events' = got
                    /\ qi' = qi + 1
                    /\ pc' = "query"
                    /\ UNCHANGED <<last_ts, to_ts, from_ts>>
               ELSE IF got # <<>>
               THEN /\ all_events' = got
                    /\ pc' = "lock"
                    /\ UNCHANGED <<last_ts, to_ts, from_ts, qi>>
               ELSE /\ EndOfCycle
                    /\ last_ts' = next_cursor(got, last_ts, to_ts)
                    /\ qi' = qi
    /\ UNCHANGED <<before, call, ret, chain, pools, swaps, lock, poisoned, idx, sub, werr, newest>>

Lock_without_mutex ==
    /\ pc = "lock"
    /\ ~poisoned
    /\ pc' = "apply"
    /\ idx' = 1
    /\ sub' = 1
    /\ UNCHANGED <<before, call, ret, chain, pools, swaps, lock, poisoned, last_ts, to_ts, from_ts, qi,
                   failed, nodata, all_events, werr, newest>>

\* if let Ok(conn) = conn_arc.lock()
Lock ==
    /\ pc = "lock"
    /\ lock = "free"
    /\ ~poisoned
    /\ lock' = "indexer"
    /\ pc' = "apply"
    /\ idx' = 1
    /\ sub' = 1
    /\ UNCHANGED <<before, call, ret, chain, pools, swaps, poisoned, last_ts, to_ts, from_ts, qi, failed,
                   nodata, all_events, werr, newest>>

LockPoisoned_unwrap ==
    /\ pc = "lock"
    /\ lock = "free"
    /\ poisoned
    /\ pc' = "panicked"
    /\ UNCHANGED <<before, call, ret, chain, pools, swaps, lock, poisoned, last_ts, to_ts,
                   from_ts, qi, failed, nodata, all_events, idx, sub, werr, newest>>

\* lock() returns Err(PoisonError): process_events is skipped
LockPoisoned ==
    /\ pc = "lock"
    /\ lock = "free"
    /\ poisoned
    /\ last_ts' = next_cursor(all_events, last_ts, to_ts)
    /\ EndOfCycle
    /\ UNCHANGED <<before, call, ret, chain, pools, swaps, lock, poisoned, qi, failed, nodata, idx, sub,
                   werr, newest>>

\* process_events, PoolCreatedEvent branch: let _ = upsert_pool(..)
ProcessPoolCreated ==
    /\ pc = "apply"
    /\ idx <= Len(all_events)
    /\ EventKind(all_events[idx]) = "PoolCreated"
    /\ LET evt == all_events[idx] IN
       \E ok \in BOOLEAN :
        /\ pools' = IF ok
                    THEN upsert_pool(pools, EvtPool(evt),
                                     AsStrOr(evt.token_a, ""), AsStrOr(evt.token_b, ""),
                                     EvtReserveA(evt), EvtReserveB(evt), EvtTs(evt))
                    ELSE pools
        /\ werr' = (werr \/ ~ok)
        /\ newest' = IF ok THEN Newer(newest, evt) ELSE newest
    /\ idx' = idx + 1
    /\ UNCHANGED <<before, call, ret, chain, swaps, lock, poisoned, pc, last_ts, to_ts, from_ts, qi, failed,
                   nodata, all_events, sub>>

\* process_events, SwapEvent branch: let _ = insert_swap(..)
ProcessSwapInsert ==
    /\ pc = "apply"
    /\ idx <= Len(all_events)
    /\ EventKind(all_events[idx]) = "Swap"
    /\ sub = 1
    /\ LET evt == all_events[idx] IN
       \E ok \in BOOLEAN :
        /\ swaps' = IF ok
                    THEN insert_swap(swaps, EvtPool(evt),
                                     ParseF64(AsStrOr(evt.amount_in, "0")),
                                     ParseF64(AsStrOr(evt.amount_out, "0")),
                                     EvtTs(evt), EvtDigest(evt))
                    ELSE swaps
        /\ werr' = (werr \/ ~ok)
    /\ sub' = 2
    /\ UNCHANGED <<before, call, ret, chain, pools, lock, poisoned, pc, last_ts, to_ts, from_ts, qi,
                   failed, nodata, all_events, idx, newest>>

\* process_events, SwapEvent branch: let _ = upsert_pool(conn, pool_id, "", "", ..)
ProcessSwapUpsert ==
    /\ pc = "apply"
    /\ idx <= Len(all_events)
    /\ EventKind(all_events[idx]) = "Swap"
    /\ sub = 2
    /\ LET evt == all_events[idx] IN
       \E ok \in BOOLEAN :
        /\ pools' = IF ok
                    THEN upsert_pool(pools, EvtPool(evt), "", "",
                                     EvtReserveA(evt), EvtReserveB(evt), EvtTs(evt))
                    ELSE pools
        /\ werr' = (werr \/ ~ok)
        /\ newest' = IF ok THEN Newer(newest, evt) ELSE newest
    /\ idx' = idx + 1
    /\ sub' = 1
    /\ UNCHANGED <<before, call, ret, chain, swaps, lock, poisoned, pc, last_ts, to_ts, from_ts, qi, failed,
                   nodata, all_events>>

\* process_events returns, the guard is dropped, last_ts = to_ts
ProcessDone ==
    /\ pc = "apply"
    /\ idx > Len(all_events)
    /\ lock' = "free"
    /\ last_ts' = next_cursor(all_events, last_ts, to_ts)
    /\ EndOfCycle
    /\ idx' = 1
    /\ sub' = 1
    /\ UNCHANGED <<before, call, ret, chain, pools, swaps, poisoned, qi, failed, nodata, werr, newest>>

\* sleep(POLL_INTERVAL_SECS).await, then the next iteration
Sleep ==
    /\ pc = "sleep"
    /\ pc' = "now"
    /\ qi' = 1
    /\ failed' = FALSE
    /\ nodata' = FALSE
    /\ werr' = FALSE
    /\ UNCHANGED <<before, call, ret, chain, pools, swaps, lock, poisoned, last_ts, to_ts, from_ts,
                   all_events, idx, sub, newest>>

\* ------------------------------------------------------- query handlers
\* pools_handler / swaps_handler / price_handler: conn_arc.lock().unwrap()
HandlerLock ==
    /\ pc # "boot"
    /\ lock = "free"
    /\ ~poisoned
    /\ lock' = "handler"
    /\ UNCHANGED <<before, call, ret, chain, pools, swaps, poisoned, pc, mem, newest>>

\* the handler returns its Json response; the guard is dropped
HandlerRespond ==
    /\ lock = "handler"
    /\ lock' = "free"
    /\ UNCHANGED <<before, call, ret, chain, pools, swaps, poisoned, pc, mem, newest>>

\* an unwrap() on a failed prepare / query / row panics under the guard
HandlerPanic ==
    /\ lock = "handler"
    /\ lock' = "free"
    /\ poisoned' = TRUE
    /\ UNCHANGED <<before, call, ret, chain, pools, swaps, pc, mem, newest>>

Next ==
    \/ Emit
    \/ Restart
    \/ main
    \/ ReadClock
    \/ Query
    \/ Lock
    \/ LockPoisoned
    \/ ProcessPoolCreated
    \/ ProcessSwapInsert
    \/ ProcessSwapUpsert
    \/ ProcessDone
    \/ Sleep
    \/ HandlerLock
    \/ HandlerRespond
    \/ HandlerPanic

Spec == Init /\ [][Next]_vars

\* Scheduling: the tokio runtime keeps polling the run_indexer task, every
\* request sent gets an answer or an error, the sleep timer fires, a handler
\* that holds the guard returns or panics, and a lock() that waits gets the
\* mutex when it is released again and again.
Fairness ==
    /\ WF_vars(main)
    /\ WF_vars(ReadClock)
    /\ WF_vars(Query)
    /\ SF_vars(Lock)
    /\ WF_vars(LockPoisoned)
    /\ WF_vars(ProcessPoolCreated)
    /\ WF_vars(ProcessSwapInsert)
    /\ WF_vars(ProcessSwapUpsert)
    /\ WF_vars(ProcessDone)
    /\ WF_vars(Sleep)
    /\ WF_vars(HandlerRespond \/ HandlerPanic)

\* ledgers that do not grow while the loop is observed: empty, one event, or
\* a PoolCreated event followed by a Swap event of the same timestamp
LiveChains ==
    {<<>>} \cup { <<e>> : e \in RawEvents }
           \cup { <<RawPoolCreated(t, p), RawSwap(t, p, d)>> :
                      t \in 0..MaxTs, p \in PoolIds, d \in Digests }

InitLive ==
    /\ chain \in LiveChains
    /\ pools = {}
    /\ swaps = <<>>
    /\ lock = "free"
    /\ poisoned = FALSE
    /\ pc = "boot"
    /\ last_ts = 0
    /\ to_ts = 0
    /\ from_ts = 0
    /\ qi = 1
    /\ failed = FALSE
    /\ nodata = FALSE
    /\ all_events = <<>>
    /\ idx = 1
    /\ sub = 1
    /\ werr = FALSE
    /\ newest = [q \in {} |-> <<>>]
    /\ before = <<>>
    /\ call = <<>>
    /\ ret = <<>>

NextLive ==
    \/ Restart
    \/ main
    \/ ReadClock
    \/ Query
    \/ Lock
    \/ LockPoisoned
    \/ ProcessPoolCreated
    \/ ProcessSwapInsert
    \/ ProcessSwapUpsert
    \/ ProcessDone
    \/ Sleep
    \/ HandlerLock
    \/ HandlerRespond
    \/ HandlerPanic

LiveSpec == InitLive /\ [][NextLive]_vars /\ Fairness

\* ------------------------------------------------------- a window of more than a page
\* the i-th of many Swap events of one pool, each with its own digest
PageSwap(i) ==
    [type |-> SwapType, txDigest |-> Str(ToString(i)),
     timestampMs |-> Str("0"), pool_id |-> Str("p1"),
     token_a |-> Missing, token_b |-> Missing,
     initial_reserve_a |-> Missing, initial_reserve_b |-> Missing,
     amount_in |-> Str("2"), amount_out |-> Str("1"),
     new_reserve_a |-> Str("1"), new_reserve_b |-> Str("2")]

\* the ledger holds one Swap event more than a page, and the store is healthy
InitPage ==
    /\ chain = [i \in 1..(PAGE_LIMIT + 1) |-> PageSwap(i)]
    /\ pools = {}
    /\ swaps = <<>>
    /\ lock = "free"
    /\ poisoned = FALSE
    /\ pc = "boot"
    /\ last_ts = 0
    /\ to_ts = 0
    /\ from_ts = 0
    /\ qi = 1
    /\ failed = FALSE
    /\ nodata = FALSE
    /\ all_events = <<>>
    /\ idx = 1
    /\ sub = 1
    /\ werr = FALSE
    /\ newest = [q \in {} |-> <<>>]
    /\ before = <<>>
    /\ call = <<>>
    /\ ret = <<>>

\* process_events, SwapEvent branch, both writes returning Ok
ProcessSwapOk ==
    /\ pc = "apply"
    /\ idx <= Len(all_events)
    /\ EventKind(all_events[idx]) = "Swap"
    /\ sub = 1
    /\ LET evt == all_events[idx] IN
        /\ swaps' = insert_swap(swaps, EvtPool(evt),
                                ParseF64(AsStrOr(evt.amount_in, "0")),
                                ParseF64(AsStrOr(evt.amount_out, "0")),
                                EvtTs(evt), EvtDigest(evt))
        /\ pools' = upsert_pool(pools, EvtPool(evt), "", "",
                                EvtReserveA(evt), EvtReserveB(evt), EvtTs(evt))
        /\ newest' = Newer(newest, evt)
    /\ idx' = idx + 1
    /\ UNCHANGED <<before, call, ret, chain, lock, poisoned, pc, last_ts, to_ts, from_ts, qi,
                   failed, nodata, all_events, sub, werr>>

NextPage ==
    \/ main
    \/ ReadClock
    \/ Query
    \/ Lock
    \/ ProcessSwapOk
    \/ ProcessDone
    \/ Sleep

SpecPage == InitPage /\ [][NextPage]_vars

\* ------------------------------------------------------- a restart between cycles
\* ledgers that do not grow: empty, one event, or two events in timestamp
\* order
RestartChains ==
    {<<>>} \cup { <<e>> : e \in RawEvents }
           \cup { <<pair[1], pair[2]>> :
                      pair \in { q \in RawEvents \X RawEvents :
                                   q[1] # q[2] /\ EvtTs(q[1]) <= EvtTs(q[2]) } }

InitRestart ==
    /\ chain \in RestartChains
    /\ pools = {}
    /\ swaps = <<>>
    /\ lock = "free"
    /\ poisoned = FALSE
    /\ pc = "boot"
    /\ last_ts = 0
    /\ to_ts = 0
    /\ from_ts = 0
    /\ qi = 1
    /\ failed = FALSE
    /\ nodata = FALSE
    /\ all_events = <<>>
    /\ idx = 1
    /\ sub = 1
    /\ werr = FALSE
    /\ newest = [q \in {} |-> <<>>]
    /\ before = <<>>
    /\ call = <<>>
    /\ ret = <<>>

\* one iteration of `for event_type in event_types.iter()` whose round trip
\* succeeds with a body that has result.data
QueryData ==
    /\ pc = "query"
    /\ LET got == all_events \o QueryPage(chain, event_types[qi], from_ts, to_ts)
       IN  IF qi < Len(event_types)
           THEN /\ all_events' = got
                /\ qi' = qi + 1
                /\ pc' = "query"
                /\ UNCHANGED <<last_ts, to_ts, from_ts>>
           ELSE IF got # <<>>
           THEN /\ all_events' = got
                /\ pc' = "lock"
                /\ UNCHANGED <<last_ts, to_ts, from_ts, qi>>
           ELSE /\ EndOfCycle
                /\ last_ts' = next_cursor(got, last_ts, to_ts)
                /\ qi' = qi
    /\ UNCHANGED <<before, call, ret, chain, pools, swaps, lock, poisoned, idx, sub,
                   werr, failed, nodata, newest>>

\* process_events, PoolCreatedEvent branch, upsert_pool returning Ok
ProcessPoolCreatedOk ==
    /\ pc = "apply"
    /\ idx <= Len(all_events)
    /\ EventKind(all_events[idx]) = "PoolCreated"
    /\ LET evt == all_events[idx] IN
        /\ pools' = upsert_pool(pools, EvtPool(evt),
                                AsStrOr(evt.token_a, ""), AsStrOr(evt.token_b, ""),
                                EvtReserveA(evt), EvtReserveB(evt), EvtTs(evt))
        /\ newest' = Newer(newest, evt)
    /\ idx' = idx + 1
    /\ UNCHANGED <<before, call, ret, chain, swaps, lock, poisoned, pc, last_ts, to_ts,
                   from_ts, qi, failed, nodata, all_events, sub, werr>>

\* The process is stopped while run_indexer sleeps and is started again:
\* fooswap.db persists, the cursor is lost; the tables and the cursor the
\* restart found are remembered.
RestartAsleep ==
    /\ pc = "sleep"
    /\ before' = [pools |-> pools, swaps |-> swaps, cursor |-> last_ts]
    /\ pc' = "boot"
    /\ lock' = "free"
    /\ poisoned' = FALSE
    /\ last_ts' = 0
    /\ to_ts' = 0
    /\ from_ts' = 0
    /\ qi' = 1
    /\ failed' = FALSE
    /\ nodata' = FALSE
    /\ all_events' = <<>>
    /\ idx' = 1
    /\ sub' = 1
    /\ werr' = FALSE
    /\ UNCHANGED <<call, ret, chain, pools, swaps, newest>>

NextRestart ==
    \/ main
    \/ ReadClock
    \/ QueryData
    \/ Lock
    \/ ProcessPoolCreatedOk
    \/ ProcessSwapOk
    \/ ProcessDone
    \/ Sleep
    \/ RestartAsleep

SpecRestart == InitRestart /\ [][NextRestart]_vars

\* ------------------------------------------------------- db.rs on its own
\* the variables of the process, which a function called on its own leaves
\* alone
process == <<chain, lock, poisoned, last_ts, to_ts, from_ts, qi, failed, nodata,
             all_events, idx, sub, werr, newest, before>>

\* no process runs: the store is empty and a function is about to be called
Detached ==
    /\ chain = <<>>
    /\ swaps = <<>>
    /\ lock = "free"
    /\ poisoned = FALSE
    /\ last_ts = 0
    /\ to_ts = 0
    /\ from_ts = 0
    /\ qi = 1
    /\ failed = FALSE
    /\ nodata = FALSE
    /\ all_events = <<>>
    /\ idx = 1
    /\ sub = 1
    /\ werr = FALSE
    /\ newest = [q \in {} |-> <<>>]
    /\ before = <<>>
    /\ ret = <<>>

\* arguments of upsert_pool: two pool ids, tokens given or empty, a zero and
\* a positive reserve, timestamps in any order
UpsertArgs ==
    [fn : {"upsert_pool"}, pool_id : {"p1", "p2"}, token_a : {"", "A"},
     token_b : {"", "B"}, reserve_a : {0, 1}, reserve_b : {2},
     last_updated : 0..MaxTs]

InitUpsert ==
    /\ Detached
    /\ pools = {}
    /\ pc = "call"
    /\ call \in UpsertArgs

\* upsert_pool(conn, pool_id, token_a, token_b, reserve_a, reserve_b,
\* last_updated) returns Ok(()); the caller goes on to its next call
CallUpsertPool ==
    /\ pc = "call"
    /\ call \in UpsertArgs
    /\ pools' = upsert_pool(pools, call.pool_id, call.token_a, call.token_b,
                            call.reserve_a, call.reserve_b, call.last_updated)
    /\ ret' = "Ok"
    /\ \E c \in UpsertArgs : call' = c
    /\ UNCHANGED <<swaps, pc, process>>

NextUpsert == CallUpsertPool

SpecUpsert == InitUpsert /\ [][NextUpsert]_vars

\* arguments of insert_swap: two digests, each with any pool, amount and
\* timestamp
InsertArgs ==
    [fn : {"insert_swap"}, pool_id : {"p1", "p2"}, amount_in : {1, 2},
     amount_out : {1}, timestamp : 0..MaxTs, tx_digest : Digests]

InitInsert ==
    /\ Detached
    /\ pools = {}
    /\ pc = "call"
    /\ call \in InsertArgs

\* insert_swap(conn, pool_id, amount_in, amount_out, timestamp, tx_digest)
\* returns Ok(()); the caller goes on to its next call
CallInsertSwap ==
    /\ pc = "call"
    /\ call \in InsertArgs
    /\ swaps' = insert_swap(swaps, call.pool_id, call.amount_in, call.amount_out,
                            call.timestamp, call.tx_digest)
    /\ ret' = "Ok"
    /\ \E c \in InsertArgs : call' = c
    /\ UNCHANGED <<before, pools, pc, chain, lock, poisoned, last_ts, to_ts, from_ts, qi,
                   failed, nodata, all_events, idx, sub, werr, newest>>

NextInsert == CallInsertSwap

SpecInsert == InitInsert /\ [][NextInsert]_vars

\* ------------------------------------------------------- process_events on its own
\* type strings an event may carry: the two of the contract, the same event
\* names under another package or with a suffix, another event, none
NormTypes ==
    { PoolCreatedType, SwapType,
      <<"0xabc", "::other::", "PoolCreatedEvent">>,
      <<DEX_PACKAGE_ID, "::fooswap::", "SwapEvent", "V2">>,
      <<DEX_PACKAGE_ID, "::fooswap::", "LiquidityEvent">>,
      <<>> }

\* a JSON number, for which as_str() is None
Num(n) == <<"num", n>>

\* raw events with fields present, absent, of the wrong JSON type or unparsable
NormEvents ==
    [type : NormTypes,
     txDigest : {Str("d1"), Missing},
     timestampMs : {Str("1"), Str("x"), Num(1), Missing},
     pool_id : {Str("p1"), Missing},
     token_a : {Str("A"), Missing},
     token_b : {Str("B")},
     initial_reserve_a : {Str("3"), Str("abc"), Missing},
     initial_reserve_b : {Str("4")},
     amount_in : {Str("2"), Missing},
     amount_out : {Str("1")},
     new_reserve_a : {Str("1"), Missing},
     new_reserve_b : {Str("2")}]

\* the pools table before the call: empty, or a row written earlier
NormTables ==
    { {} } \cup
    { {[pool_id |-> p, token_a |-> "A", token_b |-> "B", reserve_a |-> 3,
        reserve_b |-> 4, last_updated |-> 1]} : p \in {"p1", ""} }

\* process_events(&conn, &[evt]) is entered with the guard held
InitNormalize ==
    /\ chain = <<>>
    /\ pools \in NormTables
    /\ swaps = <<>>
    /\ lock = "indexer"
    /\ poisoned = FALSE
    /\ pc = "apply"
    /\ last_ts = 0
    /\ to_ts = 0
    /\ from_ts = 0
    /\ qi = 1
    /\ failed = FALSE
    /\ nodata = FALSE
    /\ \E e \in NormEvents : all_events = <<e>>
    /\ idx = 1
    /\ sub = 1
    /\ werr = FALSE
    /\ newest = [q \in {} |-> <<>>]
    /\ before = <<>>
    /\ call = <<>>
    /\ ret = <<>>

\* neither branch of the if / else-if is taken: the loop goes on
ProcessOther ==
    /\ pc = "apply"
    /\ idx <= Len(all_events)
    /\ EventKind(all_events[idx]) = "Other"
    /\ idx' = idx + 1
    /\ UNCHANGED <<before, call, ret, chain, pools, swaps, lock, poisoned, pc, last_ts, to_ts,
                   from_ts, qi, failed, nodata, all_events, sub, werr, newest>>

NextNormalize ==
    \/ ProcessPoolCreated
    \/ ProcessSwapInsert
    \/ ProcessSwapUpsert
    \/ ProcessOther
    \/ ProcessDone

SpecNormalize == InitNormalize /\ [][NextNormalize]_vars

\* ------------------------------------------------------- price_handler on its own
\* The `pair` parameter is absent, or a string kept as the sequence
\* pair.split('/') yields.
PriceParams ==
    [fn : {"price_handler"}, has_pair : BOOLEAN,
     tokens : {<<"A", "B">>, <<"B", "A">>, <<"", "">>, <<"A">>, <<"A", "B", "C">>}]

\* pool rows price_handler may meet: created by a PoolCreated event or by a
\* Swap event (empty tokens), reserve_a negative, zero or positive
PriceRows ==
    [pool_id : {"p1", "p2"}, token_a : {"A"}, token_b : {"B"},
     reserve_a : {0 - 1, 0, 4}, reserve_b : {1}, last_updated : {0}]
    \cup
    [pool_id : {"p1", "p2"}, token_a : {""}, token_b : {""},
     reserve_a : {0 - 1, 0, 4}, reserve_b : {1}, last_updated : {0}]

PriceTables ==
    { {} } \cup { {r} : r \in PriceRows }
           \cup { {r1, r2} : r1 \in { r \in PriceRows : r.pool_id = "p1" },
                             r2 \in { r \in PriceRows : r.pool_id = "p2" } }

\* reserve_b / reserve_a as the fraction <<numerator, denominator>>
Price(reserve_a, reserve_b) ==
    IF reserve_a > 0 THEN <<reserve_b, reserve_a>> ELSE <<0, 1>>

Envelope(status, pool_id, price, message) ==
    [status |-> status, pool_id |-> pool_id, price |-> price, message |-> message]

Fault == Envelope("fault", "", <<0, 1>>, "panic")

\* the responses price_handler may give: `LIMIT 1` without ORDER BY yields
\* any one matching row, and an unwrap() panics when the mutex is poisoned or
\* the statement fails
price_handler(params, tbl, poison) ==
    IF poison THEN { Fault }
    ELSE IF ~params.has_pair
    THEN { Envelope("error", "", <<0, 1>>, "Missing pair query parameter") }
    ELSE IF Len(params.tokens) # 2
    THEN { Envelope("error", "", <<0, 1>>,
                    "Query parameter pair must be in the form TOKENA/TOKENB") }
    ELSE LET found == { r \in tbl : r.token_a = params.tokens[1]
                                    /\ r.token_b = params.tokens[2] }
         IN  { Fault } \cup
             IF found = {}
             THEN { Envelope("error", "", <<0, 1>>, "No pool found") }
             ELSE { Envelope("ok", r.pool_id, Price(r.reserve_a, r.reserve_b), "")
                    : r \in found }

InitPrice ==
    /\ Detached
    /\ pools \in PriceTables
    /\ pc = "call"
    /\ call \in PriceParams

\* GET /api/price
CallPrice ==
    /\ pc = "call"
    /\ call \in PriceParams
    /\ ret = <<>>
    /\ \E r \in price_handler(call, pools, poisoned) : ret' = r
    /\ UNCHANGED <<pools, swaps, pc, call, process>>

\* a handler panicked under the guard before this request: the mutex is
\* poisoned
PoisonedBefore ==
    /\ pc = "call"
    /\ ret = <<>>
    /\ ~poisoned
    /\ poisoned' = TRUE
    /\ UNCHANGED <<before, pools, swaps, pc, call, ret, chain, lock, last_ts, to_ts, from_ts,
                   qi, failed, nodata, all_events, idx, sub, werr, newest>>

NextPrice == CallPrice \/ PoisonedBefore

SpecPrice == InitPrice /\ [][NextPrice]_vars

\* ------------------------------------------------------- properties
SwapEventsOf(ch) ==
    { ch[i] : i \in { j \in DOMAIN ch : EventKind(ch[j]) = "Swap" } }

RowPresent(evt) == HasRow(swaps, evt)

\* the pool row of the event's pool holds the event's reserves and timestamp
PoolCarries(tbl, evt) ==
    \E row \in tbl :
        /\ row.pool_id = EvtPool(evt)
        /\ row.reserve_a = EvtReserveA(evt)
        /\ row.reserve_b = EvtReserveB(evt)
        /\ row.last_updated = EvtTs(evt)

\* both writes of the Swap event are in the store
Reflected(evt) == RowPresent(evt) /\ PoolCarries(pools, evt)

UniqueDigests ==
    \A i, j \in DOMAIN swaps : swaps[i].tx_digest = swaps[j].tx_digest => i = j

\* steps of process_events on a Swap event in which the write returns Ok, no
\* write of the cycle having returned Err before
InsertReturnsOk == pc = "apply" /\ pc' = "apply" /\ sub = 1 /\ sub' = 2 /\ ~werr'
UpsertReturnsOk == pc = "apply" /\ pc' = "apply" /\ sub = 2 /\ sub' = 1 /\ ~werr'

\* C1: the swaps table never holds two rows with the same transaction digest,
\* whatever windows are fetched again (after failures or a restart), and an
\* insert_swap that returns Ok for a digest already stored adds no row.
C1_OneRowPerDigest ==
    /\ []UniqueDigests
    /\ [][(InsertReturnsOk /\ \E i \in DOMAIN swaps :
                swaps[i].tx_digest = EvtDigest(all_events[idx]))
            => swaps' = swaps]_vars

\* a second Swap event with a stored digest went through insert_swap, which
\* returned Ok and left the row of the first one in place
C1_Witness ==
    /\ pc = "apply" /\ sub = 2 /\ ~werr
    /\ \E i \in DOMAIN swaps :
        /\ swaps[i].tx_digest = EvtDigest(all_events[idx])
        /\ swaps[i].timestamp # EvtTs(all_events[idx])

\* C2: after every completed poll cycle each pool row carries the reserves and
\* last_updated of the latest event, by event timestamp, among the events
\* stored for that pool so far.
C2_ReservesOfLatestEvent ==
    pc = "sleep" =>
        \A row \in pools :
            row.pool_id \in DOMAIN newest =>
                <<row.last_updated, row.reserve_a, row.reserve_b>>
                    = newest[row.pool_id]

\* C3: within one process the cursor last_ts never decreases, whatever the
\* fetches return and whatever the system clock yields for to_ts.
C3_CursorNeverDecreases == [][pc' # "boot" => last_ts' >= last_ts]_vars

\* the first query of a window whose end, read from a clock that went back,
\* lies below the cursor has been answered
C3_Witness == pc = "query" /\ qi = 2 /\ last_ts > 0 /\ to_ts < last_ts

\* C4: a handler holding the lock never sees a swap row whose pool has not
\* been written, nor a pool row that carries the reserves and timestamp of a
\* Swap event whose swap row is missing.
C4_SwapVisibleWithReserves ==
    lock = "handler" =>
        /\ \A i \in DOMAIN swaps :
            \E row \in pools : row.pool_id = swaps[i].pool_id
        /\ \A e \in SwapEventsOf(chain) : PoolCarries(pools, e) => RowPresent(e)

\* C5: a Swap event whose writes return Ok leaves one row with its digest and
\* its reserves and timestamp in its pool row, and processing a Swap event
\* that the store already reflects changes neither table.
C5_SwapTwiceIsSwapOnce ==
    /\ [][InsertReturnsOk =>
            Cardinality({ i \in DOMAIN swaps' :
                swaps'[i].tx_digest = EvtDigest(all_events[idx]) }) = 1]_vars
    /\ [][UpsertReturnsOk => PoolCarries(pools', all_events[idx])]_vars
    /\ [][(/\ pc = "apply" /\ pc' = "apply"
           /\ idx <= Len(all_events)
           /\ EventKind(all_events[idx]) = "Swap"
           /\ Reflected(all_events[idx]))
          => (pools' = pools /\ swaps' = swaps)]_vars

\* insert_swap has returned Ok for a Swap event on a store that reflects both
\* writes of an earlier application of that event
C5_Witness ==
    /\ pc = "apply" /\ sub = 2 /\ ~werr
    /\ Reflected(all_events[idx])

\* C6: a query that fails ends the cycle without the lock being taken; neither
\* the queries of a cycle nor any step after a failed one change the store or
\* the cursor, and every window starts at the cursor.
C6_FailedFetchChangesNothing ==
    /\ [](failed => pc = "sleep")
    /\ [](pc = "query" => from_ts = last_ts)
    /\ [][pc = "query" => (pools' = pools /\ swaps' = swaps)]_vars
    /\ [][((failed \/ failed') /\ pc' # "boot")
           => (pools' = pools /\ swaps' = swaps /\ last_ts' = last_ts)]_vars

\* the PoolCreated query was answered and the Swap query failed, while the
\* ledger holds a PoolCreated event at or after the cursor that is not stored
C6_Witness ==
    /\ pc = "sleep" /\ failed /\ qi = 2 /\ ~nodata /\ pools = {}
    /\ \E i \in DOMAIN chain :
        EventKind(chain[i]) = "PoolCreated" /\ EvtTs(chain[i]) >= last_ts

\* C7: a cycle whose fetch succeeds with no events ends with the cursor at
\* that cycle's to_ts.
C7_EmptyFetchAdvancesCursor ==
    [][(pc = "query" /\ pc' = "sleep" /\ ~failed' /\ ~nodata')
        => last_ts' = to_ts]_vars

\* C8: the events process_events goes through, first to last, are in
\* non-decreasing timestamp order, and a cycle that retrieved events ends with
\* the cursor at to_ts only after the pool of each of them has been written.
C8_AppliedInTimestampOrder ==
    /\ [](pc = "apply" =>
            \A i, j \in DOMAIN all_events :
                i < j => EvtTs(all_events[i]) <= EvtTs(all_events[j]))
    /\ [][(pc = "apply" /\ pc' = "sleep" /\ last_ts' = to_ts) =>
            \A i \in DOMAIN all_events :
                \E row \in pools : row.pool_id = EvtPool(all_events[i])]_vars

\* C9: a cycle in which a store write returned Err ends with the cursor where
\* it was when the cycle began, so that its window is fetched again.
C9_WriteErrorKeepsCursor ==
    [][(pc = "apply" /\ werr /\ pc' = "sleep") => last_ts' = last_ts]_vars

\* C10: a cycle in which a success response carried no result.data array
\* applies no event and leaves the cursor where it was.
C10_MissingDataIsFailure ==
    /\ [](nodata => pc \notin {"lock", "apply"})
    /\ [][(nodata /\ pc' # "boot") => last_ts' = last_ts]_vars

\* C11: the store changes only in steps taken by the ingestion task while it
\* holds the mutex, the task holds it from the first to the last event of a
\* batch, and no handler holds it during that time.
C11_OneCallerAtATime ==
    /\ [](pc = "apply" <=> lock = "indexer")
    /\ [][(pools' # pools \/ swaps' # swaps)
            => (lock = "indexer" /\ lock' = "indexer")]_vars
    /\ [][(pc = "apply" /\ pc' = "apply") => lock' = lock]_vars
    /\ [][lock = "handler" => (pools' = pools /\ swaps' = swaps)]_vars

\* the ingestion task is in the middle of a batch of two events, one applied
C11_Witness ==
    /\ pc = "apply" /\ lock = "indexer"
    /\ Len(all_events) = 2 /\ idx = 2 /\ pools # {}

\* C12: the pools table never holds two rows with the same pool_id, and no
\* step, a restart included, leaves a pool_id without the row it had.
C12_OnePoolRowNeverRemoved ==
    /\ [](\A r1, r2 \in pools : r1.pool_id = r2.pool_id => r1 = r2)
    /\ [][\A r \in pools : \E r2 \in pools' : r2.pool_id = r.pool_id]_vars

\* the row a PoolCreated event created has been written again by a Swap event
C12_Witness ==
    /\ pc = "sleep"
    /\ \E r \in pools : r.token_a = "A" /\ r.reserve_a # 3

\* C13: a call of upsert_pool leaves exactly one row with the call's pool_id,
\* carrying the call's reserves and last_updated whatever the row held before;
\* a row it creates takes the call's tokens, and no other row changes.
C13_UpsertLastWriterWins ==
    [][(pc = "call" /\ call \in UpsertArgs) =>
        LET old == { r \in pools : r.pool_id = call.pool_id }
            new == { r \in pools' : r.pool_id = call.pool_id }
        IN  /\ Cardinality(new) = 1
            /\ \A r \in new :
                /\ r.reserve_a = call.reserve_a
                /\ r.reserve_b = call.reserve_b
                /\ r.last_updated = call.last_updated
                /\ old = {} => (r.token_a = call.token_a /\ r.token_b = call.token_b)
            /\ pools' \ new = pools \ old]_vars

\* an earlier call has returned, and the next call passes empty tokens and a
\* timestamp below the last_updated of the row it is about to overwrite
C13_Witness ==
    /\ pc = "call" /\ ret = "Ok" /\ call \in UpsertArgs
    /\ call.token_a = "" /\ call.token_b = ""
    /\ \E r \in pools :
        /\ r.pool_id = call.pool_id
        /\ r.last_updated > call.last_updated
        /\ r.reserve_a # call.reserve_a

C15_ExactTypeDispatch ==
    [][(/\ pc = "apply"
        /\ idx <= Len(all_events)
        /\ all_events[idx].type \notin {PoolCreatedType, SwapType})
        => (pools' = pools /\ swaps' = swaps)]_vars

\* C16: price_handler answers with the price reserve_b / reserve_a of a pool
\* that has the requested token pair when its reserve_a is positive and with
\* the price 0 otherwise, and with an error envelope, never a fault, when the
\* pair is missing, does not split into two parts or matches no pool.
C16_PriceOrErrorEnvelope ==
    (pc = "call" /\ call \in PriceParams /\ ret # <<>>) =>
        LET found == IF call.has_pair /\ Len(call.tokens) = 2
                     THEN { r \in pools : r.token_a = call.tokens[1]
                                          /\ r.token_b = call.tokens[2] }
                     ELSE {}
        IN  IF found = {}
            THEN ret.status = "error"
            ELSE /\ ret.status = "ok"
                 /\ \E r \in found :
                     /\ ret.pool_id = r.pool_id
                     /\ IF r.reserve_a > 0
                        THEN ret.price[1] * r.reserve_a = ret.price[2] * r.reserve_b
                        ELSE ret.price[1] = 0

\* C17: a call of insert_swap leaves every stored row in its place with its
\* fields as they were; it changes nothing at all when its digest is stored,
\* and otherwise appends one row with the call's fields.
C17_SwapRowsAppendOnly ==
    [][(pc = "call" /\ call \in InsertArgs) =>
        /\ \A i \in DOMAIN swaps : i \in DOMAIN swaps' /\ swaps'[i] = swaps[i]
        /\ IF \E i \in DOMAIN swaps : swaps[i].tx_digest = call.tx_digest
           THEN swaps' = swaps
           ELSE /\ Len(swaps') = Len(swaps) + 1
                /\ LET row == swaps'[Len(swaps')]
                   IN  /\ row.tx_digest = call.tx_digest
                       /\ row.pool_id = call.pool_id
                       /\ row.amount_in = call.amount_in
                       /\ row.amount_out = call.amount_out
                       /\ row.timestamp = call.timestamp]_vars

\* both digests are stored, and the next call passes a stored digest with
\* another pool, amount and timestamp
C17_Witness ==
    /\ pc = "call" /\ ret = "Ok" /\ call \in InsertArgs /\ Len(swaps) = 2
    /\ \E i \in DOMAIN swaps :
        /\ swaps[i].tx_digest = call.tx_digest
        /\ swaps[i].pool_id # call.pool_id
        /\ swaps[i].amount_in # call.amount_in
        /\ swaps[i].timestamp # call.timestamp

\* what the claim expects of an identifier field and of a numeric field
ExpectId(v) == IF v = Missing THEN "" ELSE v[2]
ExpectNum(v) ==
    IF v = Str("1") THEN 1
    ELSE IF v = Str("2") THEN 2
    ELSE IF v = Str("3") THEN 3
    ELSE IF v = Str("4") THEN 4
    ELSE 0

\* C18: process_events applies an event whatever its fields: a write that
\* returns Ok stores the identifiers that are present and "" for the absent
\* ones, the numbers that parse and 0 for those absent, not strings or
\* unparsable; a row it creates takes the tokens the same way.
C18_DefaultsForBadFields ==
    [][(pc = "apply" /\ pc' = "apply" /\ idx <= Len(all_events) /\ ~werr') =>
        LET evt == all_events[idx]
            id == ExpectId(evt.pool_id)
            ts == ExpectNum(evt.timestampMs)
        IN  /\ (EventKind(evt) = "PoolCreated" /\ idx' = idx + 1) =>
                \E row \in pools' :
                    /\ row.pool_id = id
                    /\ row.reserve_a = ExpectNum(evt.initial_reserve_a)
                    /\ row.reserve_b = ExpectNum(evt.initial_reserve_b)
                    /\ row.last_updated = ts
                    /\ (\A old \in pools : old.pool_id # id) =>
                        /\ row.token_a = ExpectId(evt.token_a)
                        /\ row.token_b = ExpectId(evt.token_b)
            /\ (EventKind(evt) = "Swap" /\ sub = 1 /\ sub' = 2) =>
                \E i \in DOMAIN swaps' :
                    /\ swaps'[i].tx_digest = ExpectId(evt.txDigest)
                    /\ swaps'[i].pool_id = id
                    /\ swaps'[i].amount_in = ExpectNum(evt.amount_in)
                    /\ swaps'[i].amount_out = ExpectNum(evt.amount_out)
                    /\ swaps'[i].timestamp = ts
            /\ (EventKind(evt) = "Swap" /\ sub = 2 /\ sub' = 1) =>
                \E row \in pools' :
                    /\ row.pool_id = id
                    /\ row.reserve_a = ExpectNum(evt.new_reserve_a)
                    /\ row.reserve_b = ExpectNum(evt.new_reserve_b)
                    /\ row.last_updated = ts]_vars

\* a Swap event without pool_id, digest and new_reserve_a and with an
\* unparsable timestamp has been applied: a swap row with empty digest and
\* pool, and the pool row with the empty identifier
C18_Witness ==
    /\ pc = "apply" /\ idx = 2 /\ ~werr
    /\ EventKind(all_events[1]) = "Swap"
    /\ all_events[1].pool_id = Missing
    /\ all_events[1].txDigest = Missing
    /\ all_events[1].new_reserve_a = Missing
    /\ all_events[1].timestampMs = Str("x")
    /\ Len(swaps) = 1 /\ swaps[1].tx_digest = "" /\ swaps[1].pool_id = ""
    /\ \E row \in pools :
        row.pool_id = "" /\ row.reserve_a = 0 /\ row.last_updated = 0

\* C19: with more than 100 Swap events in the window, process_events gets
\* the first 100 only, the cycle that applied them ends with the cursor at
\* its to_ts, and no cycle of the process stores the event beyond the page.
C19_FirstPageOnly ==
    /\ [](pc \in {"lock", "apply"} => Len(all_events) = PAGE_LIMIT)
    /\ [](\A i \in DOMAIN swaps :
            swaps[i].tx_digest # EvtDigest(chain[PAGE_LIMIT + 1]))
    /\ [][(pc = "apply" /\ pc' = "sleep") =>
            (last_ts' = to_ts /\ Len(swaps) = PAGE_LIMIT)]_vars
    /\ [][(Len(swaps) = PAGE_LIMIT /\ pc # "apply") => last_ts' >= last_ts]_vars

\* the first page has been applied, the cursor is past the window, and a
\* later cycle has queried again
C19_Witness ==
    /\ Len(chain) > PAGE_LIMIT
    /\ Len(swaps) = PAGE_LIMIT
    /\ last_ts > 0
    /\ pc = "query" /\ qi = 2

\* C20: no step changes the token_a or token_b of a pool row, and a
\* PoolCreated event whose upsert returns Ok on a row created with empty
\* tokens leaves them empty while the row takes its reserves and timestamp.
C20_TokensFixedAtCreation ==
    /\ [][\A r \in pools : \A r2 \in pools' :
            r2.pool_id = r.pool_id =>
                (r2.token_a = r.token_a /\ r2.token_b = r.token_b)]_vars
    /\ [][(/\ pc = "apply" /\ pc' = "apply" /\ ~werr'
           /\ idx <= Len(all_events) /\ idx' = idx + 1
           /\ EventKind(all_events[idx]) = "PoolCreated"
           /\ \E r \in pools : r.pool_id = EvtPool(all_events[idx])
                                /\ r.token_a = "" /\ r.token_b = "")
          => (/\ PoolCarries(pools', all_events[idx])
              /\ \A r2 \in pools' :
                    r2.pool_id = EvtPool(all_events[idx]) =>
                        (r2.token_a = "" /\ r2.token_b = ""))]_vars

\* the row a Swap event created carries the reserves of a PoolCreated event
\* applied after it, and empty tokens
C20_Witness ==
    \E r \in pools : r.token_a = "" /\ r.token_b = "" /\ r.reserve_a = 3


\* C21: a step that ends a cycle which fetched events and sets the cursor to
\* to_ts is a step out of process_events, taken with the guard held and after
\* the last fetched event has been handed to the store; a cycle whose
\* lock() returned an error leaves the cursor where it was.
C21_CursorAfterProcessing ==
    [][(/\ pc \in {"lock", "apply"} /\ pc' = "sleep"
        /\ all_events # <<>> /\ last_ts' = to_ts)
       => (/\ pc = "apply" /\ lock = "indexer"
           /\ idx > Len(all_events))]_vars

\* the events of the ledger all lie below timestamp t
AllBelow(t) == \A i \in DOMAIN chain : EvtTs(chain[i]) < t

\* C22: after a restart the cursor is 0 and the first window starts at 0;
\* when the cursor had passed every ledger event before the restart and the
\* ledger is unchanged, the cycle that re-scans [0, now) with now beyond
\* every event ends with the tables the restart found: no swap row added,
\* every pool row as it was.
C22_RescanRestoresStore ==
    /\ [][(pc = "boot" /\ pc' = "now") => last_ts' = 0]_vars
    /\ [][(before # <<>> /\ pc = "now" /\ pc' = "query" /\ last_ts = 0)
          => from_ts' = 0]_vars
    /\ [][(/\ before # <<>> /\ AllBelow(before.cursor)
           /\ pc = "apply" /\ pc' = "sleep"
           /\ from_ts = 0 /\ AllBelow(to_ts))
          => (pools' = before.pools /\ swaps' = before.swaps)]_vars

====
